---- MODULE Spec2Model ----
(***************************************************************************)
(* A model of the HEP paper graph builder:                                 *)
(*   src/api_request_manager.py  APIRequestManager (rate limiter, cached   *)
(*                               fetcher, title resolver)                  *)
(*   src/node.py                 Node                                      *)
(*   src/main.py                 the graph-building pipeline               *)
(*                                                                         *)
(* Strings are sequences of symbols; a symbol is one character ("/", "_",  *)
(* ",", " ") or a run of characters containing none of these.  The clock   *)
(* (time.time()) is read in whole seconds and never decreases.             *)
(***************************************************************************)
EXTENDS Integers, Sequences, FiniteSets, TLC

VARIABLES
    now,          \* the value time.time() returns
    queue,        \* APIRequestManager.queue: issue times, oldest first
    recent,       \* history: the issue times t of all GETs with now - t < time_window
    gets,         \* history: the URLs of all HTTP GETs performed, in order
    cache,        \* the files cache/<key>.json: key -> text of the file
    title_cache,  \* the lines of cache/title_cache.txt, in order
    pc,           \* position of the running call
    call,         \* arguments and entry snapshot of the running (or last) call
    ret,          \* what the last completed call returned or raised
    stored,       \* history: url -> the payload a fetch of url wrote to the cache
    calls,        \* number of calls started so far
    seeds,        \* main.py: SEEDS
    nodes,        \* main.py: all_nodes of get_nodes_from_seeds, then ALL_NODES
    idx           \* main.py: the position of the running for loop in its list

vars == <<now, queue, recent, gets, cache, title_cache, pc, call, ret, stored, calls,
          seeds, nodes, idx>>

\* the variables of the graph builder
graph_vars == <<seeds, nodes, idx>>

----------------------------------------------------------------------------
(* Bounds of the model *)

MaxTime == 6
MaxLimiterCalls == 17

----------------------------------------------------------------------------
(* Python values *)

\* None
NoneV == [none |-> TRUE]

\* a str: a sequence of symbols
JStr(s) == [str |-> s]

\* a list
JList(items) == [list |-> items]

\* a dict, in insertion order: a sequence of <<key, value>>, keys distinct
JObj(members) == [obj |-> members]

IsNone(v) == DOMAIN v = {"none"}
IsStr(v) == DOMAIN v = {"str"}
IsList(v) == DOMAIN v = {"list"}
IsObj(v) == DOMAIN v = {"obj"}

----------------------------------------------------------------------------
(* APIRequestManager: the rate limiter *)

max_requests == 15
time_window == 5

\* _remove_expired_requests that also drops an entry exactly time_window old
RECURSIVE remove_expired_requests_at_boundary(_, _)
remove_expired_requests_at_boundary(q, t) ==
    IF Len(q) > 0 /\ t - q[1] >= time_window
    THEN remove_expired_requests_at_boundary(Tail(q), t)
    ELSE q

\* _remove_expired_requests, with current_time = t
RECURSIVE remove_expired_requests(_, _)
remove_expired_requests(q, t) ==
    IF Len(q) > 0 /\ t - q[1] > time_window
    THEN remove_expired_requests(Tail(q), t)
    ELSE q

\* enqueue(request_time), whose pruning reads the clock as t
enqueue(q, request_time, t) ==
    remove_expired_requests(Append(q, request_time), t)

\* can_make_request without the test of the oldest entry's age
can_make_request_no_age_test(q, t) ==
    Len(q) < max_requests

\* can_make_request with a window one second too short
can_make_request_short_window(q, t) ==
    IF Len(q) < max_requests THEN TRUE
    ELSE IF t - q[1] < time_window - 1 THEN FALSE
    ELSE TRUE

\* can_make_request, reading the clock as t
can_make_request(q, t) ==
    IF Len(q) < max_requests THEN TRUE
    ELSE IF t - q[1] < time_window THEN FALSE
    ELSE TRUE

\* a sleep_time that is never positive: the loop never sleeps
sleep_time_none(q, t) == 0

\* wait_until_request_possible: sleep_time, reading the clock as t
sleep_time(q, t) == time_window - (t - q[1])

\* The issue times less than time_window old at time t (history, not code)
Recent(s, t) == SelectSeq(s, LAMBDA x : t - x < time_window)

\* Outcomes of requests.get(url, timeout=5)
GetFailures == {"Timeout", "ConnectionError"}

\* The exceptions make_api_request catches around requests.get: only Timeout
HandledExceptionsTimeoutOnly == {"Timeout"}

\* The exceptions make_api_request catches around requests.get
HandledExceptions == {"Timeout", "ConnectionError"}

\* What requests.get does: it returns a response whose json() is one of
\* payloads, or it raises
Replies(payloads) ==
    { [o |-> "ok", payload |-> p] : p \in payloads }
    \cup { [o |-> f, payload |-> NoneV] : f \in GetFailures }

----------------------------------------------------------------------------
(* Specification SpecLimiter: make_api_request(url, cache=False) called    *)
(* again and again while the clock advances.                               *)

LimiterUrl == <<"u">>
LimiterPayload == JObj(<<>>)

\* the running call has not returned yet
Pending == [value |-> NoneV, raised |-> "pending"]

\* no call is running
NoLimiterCall == [recent |-> 0, waited |-> FALSE]

LimiterInit ==
    /\ now = 0
    /\ queue = <<>>
    /\ recent = <<>>
    /\ gets = <<>>
    /\ cache = <<>>
    /\ title_cache = <<>>
    /\ pc = "idle"
    /\ call = NoLimiterCall
    /\ ret = [value |-> NoneV, raised |-> "none"]
    /\ stored = <<>>
    /\ calls = 0
    /\ seeds = <<>>
    /\ nodes = <<>>
    /\ idx = 0

\* time passes
Tick ==
    /\ now < MaxTime
    /\ now' = now + 1
    /\ recent' = Recent(recent, now + 1)
    /\ UNCHANGED <<queue, gets, cache, title_cache, pc, call, ret, stored, calls, graph_vars>>

\* make_api_request, cache=False: lines 114-115, the first can_make_request
LimiterCall ==
    /\ pc = "idle"
    /\ calls < MaxLimiterCalls
    /\ calls' = calls + 1
    /\ call' = [recent |-> Len(recent), waited |-> ~can_make_request(queue, now)]
    /\ pc' = IF can_make_request(queue, now) THEN "issue" ELSE "waiting"
    /\ ret' = Pending
    /\ UNCHANGED <<now, queue, recent, gets, cache, title_cache, stored, graph_vars>>

\* wait_until_request_possible: one turn of the loop that sleeps.  The sleep
\* lasts sleep_time + 0.05 s or longer; the clock then reads t.
LimiterSleep ==
    /\ pc = "waiting"
    /\ ~can_make_request(queue, now)
    /\ sleep_time(queue, now) > 0
    /\ \E t \in (now + sleep_time(queue, now))..MaxTime :
          /\ now' = t
          /\ recent' = Recent(recent, t)
    /\ UNCHANGED <<queue, gets, cache, title_cache, pc, call, ret, stored, calls, graph_vars>>

\* wait_until_request_possible: the loop condition fails, the wait ends
LimiterWake ==
    /\ pc = "waiting"
    /\ can_make_request(queue, now)
    /\ pc' = "issue"
    /\ UNCHANGED <<now, queue, recent, gets, cache, title_cache, call, ret, stored, calls, graph_vars>>

\* make_api_request lines 117-141: request_time is read as now, the pruning
\* of enqueue reads the clock as t, then the GET ends with outcome o
LimiterIssue ==
    /\ pc = "issue"
    /\ \E t \in now..MaxTime, o \in {"ok"} \cup GetFailures :
          /\ queue' = enqueue(queue, now, t)
          /\ now' = t
          /\ recent' = Recent(Append(recent, now), t)
          /\ ret' = IF o = "ok" THEN [value |-> LimiterPayload, raised |-> "none"]
                    ELSE IF o \in HandledExceptions
                         THEN [value |-> NoneV, raised |-> "none"]
                         ELSE [value |-> NoneV, raised |-> o]
    /\ gets' = Append(gets, LimiterUrl)
    /\ pc' = "idle"
    /\ call' = NoLimiterCall
    /\ UNCHANGED <<cache, title_cache, stored, calls, graph_vars>>

LimiterNext ==
    \/ Tick
    \/ LimiterCall
    \/ LimiterSleep
    \/ LimiterWake
    \/ LimiterIssue

SpecLimiter == LimiterInit /\ [][LimiterNext]_vars

----------------------------------------------------------------------------
(* C1: in any half-open interval of length time_window at most             *)
(* max_requests requests are issued.  (now - time_window, now] is such an  *)
(* interval, and recent holds the requests issued in it.)                  *)
C1_AtMostMaxRequestsPerWindow == Len(recent) <= max_requests

(* C2: a call that finds max_requests requests issued less than            *)
(* time_window seconds ago reaches its GET only when the oldest tracked    *)
(* timestamp is at least time_window seconds old.                          *)
C2_BlockedUntilOldestAgesOut ==
    (pc = "issue" /\ call.recent >= max_requests)
        => (Len(queue) > 0 /\ now - queue[1] >= time_window)

C2_Witness ==
    /\ pc = "issue"
    /\ call.recent >= max_requests
    /\ call.waited

(* C3: whenever fewer than max_requests requests were issued within the    *)
(* last time_window seconds, can_make_request is true, also on a queue     *)
(* that still holds stale entries and on the empty queue, and a call made  *)
(* then does not wait.                                                     *)
C3_FreeSlotMeansCanMakeRequest ==
    /\ Len(recent) < max_requests => can_make_request(queue, now)
    /\ queue = <<>> => can_make_request(queue, now)
    /\ (pc # "idle" /\ call.recent < max_requests) => ~call.waited

C3_Witness ==
    /\ pc = "issue"
    /\ Len(queue) >= max_requests
    /\ call.recent < max_requests
    /\ now - queue[1] >= time_window

----------------------------------------------------------------------------
(* Strings and JSON text *)

\* str.replace(old, new) for one-symbol old and new
Replace(s, old, new) == [i \in 1..Len(s) |-> IF s[i] = old THEN new ELSE s[i]]

\* The text of a JSON document is a sequence of tokens (the white space that
\* indent=2 adds carries nothing and is left out).
Punct(c) == [k |-> "punct", s |-> <<c>>]
StrTok(s) == [k |-> "str", s |-> s]

RECURSIVE json_dump(_), dump_items(_), dump_members(_)

\* json.dump(value, f, indent=2): the text written
json_dump(v) ==
    IF IsStr(v) THEN <<StrTok(v.str)>>
    ELSE IF IsList(v) THEN <<Punct("[")>> \o dump_items(v.list) \o <<Punct("]")>>
    ELSE IF IsObj(v) THEN <<Punct("{")>> \o dump_members(v.obj) \o <<Punct("}")>>
    ELSE <<Punct("null")>>

dump_items(items) ==
    IF Len(items) = 0 THEN <<>>
    ELSE IF Len(items) = 1 THEN json_dump(items[1])
    ELSE json_dump(items[1]) \o <<Punct(",")>> \o dump_items(Tail(items))

dump_members(ms) ==
    IF Len(ms) = 0 THEN <<>>
    ELSE LET one == <<StrTok(ms[1][1]), Punct(":")>> \o json_dump(ms[1][2])
         IN IF Len(ms) = 1 THEN one
            ELSE one \o <<Punct(",")>> \o dump_members(Tail(ms))

RECURSIVE parse_value(_), parse_items(_, _), parse_members(_, _)

\* json.load: one value read from the front of toks, and the tokens after it
parse_value(toks) ==
    LET h == Head(toks)
    IN IF h.k = "str" THEN [v |-> JStr(h.s), rest |-> Tail(toks)]
       ELSE IF h = Punct("[")
            THEN IF toks[2] = Punct("]")
                 THEN [v |-> JList(<<>>), rest |-> Tail(Tail(toks))]
                 ELSE parse_items(Tail(toks), <<>>)
       ELSE IF h = Punct("{")
            THEN IF toks[2] = Punct("}")
                 THEN [v |-> JObj(<<>>), rest |-> Tail(Tail(toks))]
                 ELSE parse_members(Tail(toks), <<>>)
       ELSE [v |-> NoneV, rest |-> Tail(toks)]

parse_items(toks, acc) ==
    LET r == parse_value(toks)
    IN IF Head(r.rest) = Punct(",")
       THEN parse_items(Tail(r.rest), Append(acc, r.v))
       ELSE [v |-> JList(Append(acc, r.v)), rest |-> Tail(r.rest)]

parse_members(toks, acc) ==
    LET r == parse_value(Tail(Tail(toks)))
        m == <<toks[1].s, r.v>>
    IN IF Head(r.rest) = Punct(",")
       THEN parse_members(Tail(r.rest), Append(acc, m))
       ELSE [v |-> JObj(Append(acc, m)), rest |-> Tail(r.rest)]

\* json.load(f)
json_load(text) == parse_value(text).v

----------------------------------------------------------------------------
(* APIRequestManager.make_api_request *)

\* the path opened for reading, without the replacement of "/"
cache_read_path_raw(url) == <<"cache", "/">> \o url \o <<".json">>

\* line 108: f"cache/{url.replace('/', '_')}.json", opened for reading
cache_read_path(url) == <<"cache", "/">> \o Replace(url, "/", "_") \o <<".json">>

\* line 138: f"cache/{url.replace('/', '_')}.json", opened for writing
cache_write_path(url) == <<"cache", "/">> \o Replace(url, "/", "_") \o <<".json">>

\* open(path, "w") and the write: the files afterwards
WriteFile(files, path, text) ==
    [f \in DOMAIN files \cup {path} |-> IF f = path THEN text ELSE files[f]]

\* The clock when wait_until_request_possible returns, entered at time t,
\* each sleep lasting as long as asked
wake_time(q, t) == IF can_make_request(q, t) THEN t ELSE t + sleep_time(q, t)

\* The state make_api_request reads and writes
State == [now |-> now, queue |-> queue, recent |-> recent, gets |-> gets,
          cache |-> cache]

\* make_api_request(url, cache=use_cache) from state st, when the GET (if one
\* is made) ends with outcome o and, if "ok", response.json() is payload:
\* the state afterwards, the value returned and the exception raised
make_api_request(st, url, use_cache, o, payload) ==
    LET hit == use_cache /\ cache_read_path(url) \in DOMAIN st.cache
        t == wake_time(st.queue, st.now)
        issued == [st EXCEPT !.now = t,
                             !.queue = enqueue(@, t, t),
                             !.recent = Recent(Append(@, t), t),
                             !.gets = Append(@, url)]
    IN IF hit
       THEN [st |-> st, value |-> json_load(st.cache[cache_read_path(url)]),
             raised |-> "none", wrote |-> FALSE]
       ELSE IF o = "ok"
       THEN [st |-> IF use_cache
                    THEN [issued EXCEPT !.cache =
                             WriteFile(@, cache_write_path(url), json_dump(payload))]
                    ELSE issued,
             value |-> payload, raised |-> "none", wrote |-> use_cache]
       ELSE IF o \in HandledExceptions
       THEN [st |-> issued, value |-> NoneV, raised |-> "none", wrote |-> FALSE]
       ELSE [st |-> issued, value |-> NoneV, raised |-> o, wrote |-> FALSE]

----------------------------------------------------------------------------
(* Specification SpecFetch: make_api_request called with any URL, either   *)
(* cache flag, any outcome of the GET and any payload.                     *)

MaxFetchCalls == 3

FetchUrls == { <<"a", "/", "b">>, <<"a", "_", "b">>, <<"c">> }

Title(t) == JObj(<< <<<<"title">>, JStr(t)>> >>)

FetchPayloads ==
    { JObj(<<>>),
      JObj(<< <<<<"metadata">>,
                JObj(<< <<<<"titles">>, JList(<<Title(<<"a">>), Title(<<"b">>)>>)>>,
                        <<<<"references">>, JList(<<>>)>> >>)>> >>),
      JList(<<JStr(<<"a", ",", "b">>), JList(<<JStr(<<>>)>>)>>) }

FetchInit ==
    /\ now = 0
    /\ queue = <<>>
    /\ recent = <<>>
    /\ gets = <<>>
    /\ cache = <<>>
    /\ title_cache = <<>>
    /\ pc = "idle"
    /\ call = [url |-> <<>>, use_cache |-> FALSE, outcome |-> "ok", hit |-> FALSE,
               queue |-> <<>>, gets |-> <<>>, cache |-> <<>>, stored |-> <<>>]
    /\ ret = [value |-> NoneV, raised |-> "none"]
    /\ stored = <<>>
    /\ calls = 0
    /\ seeds = <<>>
    /\ nodes = <<>>
    /\ idx = 0

\* one call make_api_request(url, cache=c)
Fetch ==
    /\ calls < MaxFetchCalls
    /\ \E url \in FetchUrls, c \in BOOLEAN, reply \in Replies(FetchPayloads) :
          LET o == reply.o
              payload == reply.payload
              r == make_api_request(State, url, c, o, payload)
          IN /\ now' = r.st.now
             /\ queue' = r.st.queue
             /\ recent' = r.st.recent
             /\ gets' = r.st.gets
             /\ cache' = r.st.cache
             /\ ret' = [value |-> r.value, raised |-> r.raised]
             /\ stored' = IF r.wrote
                          THEN [u \in DOMAIN stored \cup {url} |->
                                   IF u = url THEN payload ELSE stored[u]]
                          ELSE stored
             /\ call' = [url |-> url, use_cache |-> c,
                         outcome |-> IF Len(r.st.gets) = Len(gets) THEN "none" ELSE o,
                         hit |-> Len(r.st.gets) = Len(gets),
                         queue |-> queue, gets |-> gets, cache |-> cache,
                         stored |-> stored]
    /\ calls' = calls + 1
    /\ UNCHANGED <<title_cache, pc, graph_vars>>

FetchNext == Fetch

SpecFetch == FetchInit /\ [][FetchNext]_vars

----------------------------------------------------------------------------
(* C4: once a fetch of URL U has written its response to the cache, every  *)
(* later make_api_request(U, cache=True) returns exactly that payload,     *)
(* performs no GET and leaves the timestamp queue unchanged.               *)
C4_CachedFetchRoundTrip ==
    (calls > 0 /\ call.use_cache /\ call.url \in DOMAIN call.stored)
        => /\ ret.value = call.stored[call.url]
           /\ ret.raised = "none"
           /\ gets = call.gets
           /\ queue = call.queue

C4_Witness ==
    /\ calls > 0
    /\ call.use_cache
    /\ call.url = <<"a", "/", "b">>
    /\ call.url \in DOMAIN call.stored
    /\ IsObj(ret.value) /\ Len(ret.value.obj) > 0
    /\ Len(call.gets) > 1

(* C5: distinct URLs have distinct cache keys, so a fetch served from the  *)
(* cache is served from a file that a fetch of the same URL wrote.         *)
C5_NoCacheHitAcrossUrls ==
    (calls > 0 /\ call.hit)
        => /\ call.url \in DOMAIN call.stored
           /\ \A u \in DOMAIN call.stored :
                 cache_write_path(u) = cache_read_path(call.url) => u = call.url

(* C6: a GET that ends in a timeout or a connection failure makes          *)
(* make_api_request return None without raising, after exactly one GET,    *)
(* with the response cache as it was.                                      *)
C6_GetFailureReturnsNone ==
    (calls > 0 /\ call.outcome \in GetFailures)
        => /\ ret.value = NoneV
           /\ ret.raised = "none"
           /\ gets = Append(call.gets, call.url)
           /\ cache = call.cache

C6_Witness ==
    /\ calls > 0
    /\ call.outcome = "ConnectionError"
    /\ call.use_cache
    /\ cache # <<>>

----------------------------------------------------------------------------
(* Strings: the str methods find_title_from_inspire_record uses *)

Min(S) == CHOOSE x \in S : \A y \in S : x <= y

\* the index of the first c in s, 0 if there is none
IndexOf(s, c) ==
    IF \E i \in 1..Len(s) : s[i] = c
    THEN Min({i \in 1..Len(s) : s[i] = c})
    ELSE 0

\* what follows position i of s
From(s, i) == SubSeq(s, i + 1, Len(s))

\* line.startswith(prefix)
startswith(line, prefix) ==
    Len(prefix) <= Len(line) /\ SubSeq(line, 1, Len(prefix)) = prefix

\* s.split(sep)
RECURSIVE split(_, _)
split(s, sep) ==
    IF IndexOf(s, sep) = 0 THEN <<s>>
    ELSE <<SubSeq(s, 1, IndexOf(s, sep) - 1)>> \o split(From(s, IndexOf(s, sep)), sep)

Whitespace == {" ", "\n"}

\* s.strip()
RECURSIVE strip(_)
strip(s) ==
    IF Len(s) = 0 THEN s
    ELSE IF s[1] \in Whitespace THEN strip(Tail(s))
    ELSE IF s[Len(s)] \in Whitespace THEN strip(SubSeq(s, 1, Len(s) - 1))
    ELSE s

\* for line in f: the lines of a text file, each with its "\n"
RECURSIVE file_lines(_)
file_lines(text) ==
    IF Len(text) = 0 THEN <<>>
    ELSE IF IndexOf(text, "\n") = 0 THEN <<text>>
    ELSE <<SubSeq(text, 1, IndexOf(text, "\n"))>>
            \o file_lines(From(text, IndexOf(text, "\n")))

----------------------------------------------------------------------------
(* Subscripting: value[k], k a dict key or a list index (from 0) *)

Key(k) == [key |-> <<k>>]
Index(i) == [idx |-> i]

\* value[k]: the value found, or the exception raised
getitem(v, k) ==
    IF IsObj(v) /\ DOMAIN k = {"key"}
    THEN IF \E i \in 1..Len(v.obj) : v.obj[i][1] = k.key
         THEN [v |-> v.obj[CHOOSE i \in 1..Len(v.obj) : v.obj[i][1] = k.key][2],
               raised |-> "none"]
         ELSE [v |-> NoneV, raised |-> "KeyError"]
    ELSE IF IsObj(v) THEN [v |-> NoneV, raised |-> "KeyError"]
    ELSE IF IsList(v) /\ DOMAIN k = {"idx"}
    THEN IF k.idx < Len(v.list)
         THEN [v |-> v.list[k.idx + 1], raised |-> "none"]
         ELSE [v |-> NoneV, raised |-> "IndexError"]
    ELSE [v |-> NoneV, raised |-> "TypeError"]

\* value[p1][p2]...: the first exception ends the evaluation
RECURSIVE getpath(_, _)
getpath(v, path) ==
    IF Len(path) = 0 THEN [v |-> v, raised |-> "none"]
    ELSE LET r == getitem(v, path[1])
         IN IF r.raised # "none" THEN r ELSE getpath(r.v, Tail(path))

----------------------------------------------------------------------------
(* APIRequestManager.find_title_from_inspire_record *)

\* 'No title'
NoTitle == <<"No", " ", "title">>

\* line 166: the URL of the title query
title_url(record_num) ==
    <<"https:", "/", "/", "inspirehep.net", "/", "api", "/", "literature?q=recid:">>
        \o record_num \o <<"&fields=titles">>

\* line 173: response['hits']['hits'][0]['metadata']['titles'][0]['title']
title_path ==
    <<Key("hits"), Key("hits"), Index(0), Key("metadata"), Key("titles"),
      Index(0), Key("title")>>

\* line 174: except KeyError
title_path_handled == {"KeyError"}

\* lines 159-160: the number of the first line that starts with record_num, or 0
first_match(lines, record_num) ==
    IF \E i \in 1..Len(lines) : startswith(lines[i], record_num)
    THEN Min({i \in 1..Len(lines) : startswith(lines[i], record_num)})
    ELSE 0

\* line 184: f"{record_num},{title}\n"
title_line(record_num, title) == record_num \o <<",">> \o title \o <<"\n">>

\* find_title_from_inspire_record(record_num, cache=use_cache) from state st
\* and title cache text tc, when the GET (if one is made) ends with outcome o
\* and, if "ok", response.json() is payload: the state and the title cache
\* afterwards, the value returned, the exception raised, the cache line used
find_title_from_inspire_record(st, tc, record_num, use_cache, o, payload) ==
    LET lines == file_lines(tc)
        m == IF use_cache THEN first_match(lines, record_num) ELSE 0
        parts == split(lines[m], ",")
        r == make_api_request(st, title_url(record_num), FALSE, o, payload)
        p == getpath(r.value, title_path)
        title == IF p.raised = "none" THEN p.v.str ELSE NoTitle
    IN IF m # 0
       THEN IF Len(parts) < 2
            THEN [st |-> st, tc |-> tc, value |-> NoneV, raised |-> "IndexError",
                  line |-> m]
            ELSE [st |-> st, tc |-> tc, value |-> JStr(strip(parts[2])),
                  raised |-> "none", line |-> m]
       ELSE IF r.raised # "none"
       THEN [st |-> r.st, tc |-> tc, value |-> NoneV, raised |-> r.raised, line |-> 0]
       ELSE IF IsNone(r.value)
       THEN [st |-> r.st, tc |-> tc, value |-> JStr(NoTitle), raised |-> "none",
             line |-> 0]
       ELSE IF p.raised \notin title_path_handled \cup {"none"}
       THEN [st |-> r.st, tc |-> tc, value |-> NoneV, raised |-> p.raised, line |-> 0]
       ELSE [st |-> r.st,
             tc |-> IF use_cache THEN tc \o title_line(record_num, title) ELSE tc,
             value |-> JStr(title), raised |-> "none", line |-> 0]

----------------------------------------------------------------------------
(* Specification SpecTitle: find_title_from_inspire_record called with any *)
(* record number, either cache flag, any outcome of the GET and any        *)
(* response of the title query.                                            *)

MaxTitleCalls == 2

TitleRecords == { <<"1">>, <<"1", "2">>, <<"2">> }

Titles == { <<"a">>, <<"a", ",", " ", "b">>, <<"b", " ">> }

\* {"hits": {"hits": hs}}
Hits(hs) == JObj(<< <<<<"hits">>, JObj(<< <<<<"hits">>, JList(hs)>> >>)>> >>)

\* {"metadata": {"titles": ts}}
MetadataTitles(ts) ==
    JObj(<< <<<<"metadata">>, JObj(<< <<<<"titles">>, JList(ts)>> >>)>> >>)

\* the responses of the title query: with a title, and with the path to the
\* title ending early at each of its steps
TitleResponses ==
    { Hits(<<MetadataTitles(<<Title(t)>>)>>) : t \in Titles }
    \cup { JObj(<<>>),
           JObj(<< <<<<"hits">>, JObj(<<>>)>> >>),
           Hits(<<>>),
           Hits(<<JObj(<<>>)>>),
           Hits(<<JObj(<< <<<<"metadata">>, JObj(<<>>)>> >>)>>),
           Hits(<<MetadataTitles(<<>>)>>),
           Hits(<<MetadataTitles(<<JObj(<<>>)>>)>>) }

NoTitleCall ==
    [record |-> <<>>, use_cache |-> FALSE, outcome |-> "none", path |-> "none",
     title_cache |-> <<>>, line |-> 0]

TitleInit ==
    /\ now = 0
    /\ queue = <<>>
    /\ recent = <<>>
    /\ gets = <<>>
    /\ cache = <<>>
    /\ title_cache = <<>>
    /\ pc = "idle"
    /\ call = [NoTitleCall EXCEPT !.title_cache = <<>>] @@ [prev |-> NoTitleCall,
                                                            prev_ret |-> Pending]
    /\ ret = Pending
    /\ stored = <<>>
    /\ calls = 0
    /\ seeds = <<>>
    /\ nodes = <<>>
    /\ idx = 0

\* one call find_title_from_inspire_record(record_num, cache=c)
FindTitle ==
    /\ calls < MaxTitleCalls
    /\ \E record_num \in TitleRecords, c \in BOOLEAN,
          reply \in Replies(TitleResponses) :
          LET o == reply.o
              payload == reply.payload
              r == find_title_from_inspire_record(State, title_cache, record_num,
                                                  c, o, payload)
              got == Len(r.st.gets) > Len(gets)
              this == [record |-> record_num, use_cache |-> c,
                       outcome |-> IF got THEN o ELSE "none",
                       path |-> IF got /\ o = "ok"
                                THEN getpath(payload, title_path).raised
                                ELSE "none",
                       title_cache |-> title_cache, line |-> r.line]
          IN /\ now' = r.st.now
             /\ queue' = r.st.queue
             /\ recent' = r.st.recent
             /\ gets' = r.st.gets
             /\ title_cache' = r.tc
             /\ ret' = [value |-> r.value, raised |-> r.raised]
             /\ call' = this @@ [prev |-> [f \in DOMAIN NoTitleCall |-> call[f]],
                                 prev_ret |-> ret]
    /\ calls' = calls + 1
    /\ UNCHANGED <<cache, pc, stored, graph_vars>>

TitleNext == FindTitle

SpecTitle == TitleInit /\ [][TitleNext]_vars

----------------------------------------------------------------------------
\* the record-id field of a title cache line: what precedes its first comma
RecordField(line) == SubSeq(line, 1, IndexOf(line, ",") - 1)

\* the numbers of the lines of title cache text tc whose record-id field is rec
LinesOf(tc, rec) ==
    {i \in 1..Len(file_lines(tc)) : RecordField(file_lines(tc)[i]) = rec}

(* C7: two consecutive find_title_from_inspire_record calls with the same  *)
(* record id and caching enabled (whose fetches, if any, got a response,   *)
(* whatever title it carries) return the identical string, and the title   *)
(* cache never holds more than one line for a record id.                   *)
C7_TitleResolutionIdempotent ==
    /\ (/\ calls >= 2
        /\ call.use_cache /\ call.prev.use_cache
        /\ call.record = call.prev.record
        /\ call.outcome \notin GetFailures /\ call.prev.outcome \notin GetFailures
        /\ ret.raised = "none" /\ call.prev_ret.raised = "none")
            => ret.value = call.prev_ret.value
    /\ \A rec \in TitleRecords : Cardinality(LinesOf(title_cache, rec)) <= 1

(* C8: with caching enabled the call is answered from the first line of    *)
(* the title cache whose record-id field equals record_id, and from no     *)
(* line at all when there is no such line.                                 *)
C8_FirstLineOfTheRecordWins ==
    (calls > 0 /\ call.use_cache)
        => call.line = IF LinesOf(call.title_cache, call.record) = {} THEN 0
                       ELSE Min(LinesOf(call.title_cache, call.record))

(* C9: find_title_from_inspire_record never raises: it returns a string,   *)
(* which is 'No title' when the fetch failed or the path to the title is   *)
(* absent from the response.                                               *)
C9_FindTitleNeverFails ==
    calls > 0
        => /\ ret.raised = "none"
           /\ IsStr(ret.value)
           /\ (call.outcome \in GetFailures \/ call.path # "none")
                 => ret.value = JStr(NoTitle)

----------------------------------------------------------------------------
(* Node (src/node.py) *)

\* Node(record, title, node_type): a new node, with no parents
Node(record, title, node_type) ==
    [record |-> record, title |-> title, node_type |-> node_type, parents |-> {}]

\* A node as a member of a parents set: the fields __hash__ and __eq__ read
\* (and the role), which never change once the node is built
Member(n) == [record |-> n.record, title |-> n.title, node_type |-> n.node_type]

\* Node.__hash__: hash((self.record, self.title)); equal hashes of unequal
\* pairs are left out
node_hash(n) == <<n.record, n.title>>

\* Node.__eq__
node_eq(a, b) == a.record = b.record

\* set.add(x): x is added unless a member has x's hash and equals x
set_add(S, x) ==
    IF \E y \in S : node_hash(y) = node_hash(x) /\ node_eq(y, x) THEN S
    ELSE S \cup {x}

\* A.union(B)
set_union(A, B) ==
    A \cup {x \in B : ~ \E y \in A : node_hash(y) = node_hash(x) /\ node_eq(y, x)}

\* add_parent that forgets the parents the node had
add_parent_replacing(n, parent_node) ==
    [n EXCEPT !.parents = {Member(parent_node)}]

\* add_parent that adds nothing
add_parent_ignored(n, parent_node) == n

\* Node.add_parent
add_parent(n, parent_node) ==
    [n EXCEPT !.parents = set_add(@, Member(parent_node))]

----------------------------------------------------------------------------
(* The graph builder (src/main.py) *)

\* f"https://inspirehep.net/api/literature/{inspire_ref}"
literature_url(inspire_ref) ==
    <<"https:", "/", "/", "inspirehep.net", "/", "api", "/", "literature", "/">>
        \o inspire_ref

\* line 66: record.split('/')[-1]
record_num_of(record) == split(record, "/")[Len(split(record, "/"))]

\* 'record' in ref
has_key(v, k) == IsObj(v) /\ \E i \in 1..Len(v.obj) : v.obj[i][1] = <<k>>

\* line 127: data['metadata']['titles'][0]['title']
seed_title_path == <<Key("metadata"), Key("titles"), Index(0), Key("title")>>

\* remove_duplicates: the loop of lines 178-186 over rest
RECURSIVE merge_duplicates(_, _, _)
merge_duplicates(rest, unique_nodes, record_set) ==
    IF Len(rest) = 0 THEN unique_nodes
    ELSE LET node == Head(rest)
             i == Min({j \in 1..Len(unique_nodes) :
                          unique_nodes[j].record = node.record})
         IN IF node.record \notin record_set
            THEN merge_duplicates(Tail(rest), Append(unique_nodes, node),
                                  record_set \cup {node.record})
            ELSE merge_duplicates(Tail(rest),
                    [unique_nodes EXCEPT ![i].parents = set_union(@, node.parents)],
                    record_set)

\* remove_duplicates without lines 183-186: the first node of every record,
\* the parents of the later ones dropped
remove_duplicates_no_merge(all_nodes) ==
    SelectSeq([j \in 1..Len(all_nodes) |->
                  IF \E i \in 1..(j - 1) : all_nodes[i].record = all_nodes[j].record
                  THEN NoneV ELSE all_nodes[j]],
              LAMBDA n : ~IsNone(n))

\* remove_duplicates(all_nodes)
remove_duplicates(all_nodes) == merge_duplicates(all_nodes, <<>>, {})

\* add_inter_node_citation that passes over the seeds among the cited nodes
add_inter_node_citation_no_seed_target(ns, citing_node, cited_node) ==
    [j \in 1..Len(ns) |->
        IF node_eq(ns[j], cited_node) /\ ns[j].node_type # "SEED"
        THEN add_parent(ns[j], citing_node) ELSE ns[j]]

\* add_inter_node_citation(nodes, citing_node, cited_node): the list afterwards
add_inter_node_citation(ns, citing_node, cited_node) ==
    [j \in 1..Len(ns) |->
        IF node_eq(ns[j], cited_node) THEN add_parent(ns[j], citing_node) ELSE ns[j]]

\* lines 254-255: add_inter_node_citation for each of cited_nodes in turn
RECURSIVE add_citations(_, _, _)
add_citations(ns, citing_node, cited_nodes) ==
    IF Len(cited_nodes) = 0 THEN ns
    ELSE add_citations(add_inter_node_citation(ns, citing_node, Head(cited_nodes)),
                       citing_node, Tail(cited_nodes))

----------------------------------------------------------------------------
(* Specification SpecGraph: get_nodes_from_seeds(SEEDS) followed by        *)
(* find_inter_node_citations, against a server that answers every GET with *)
(* a timeout, a connection failure or a response.                          *)

MaxSeeds == 2

Records == { <<"1">>, <<"2">> }

\* the title the server gives for a record
TitleOf(record_num) ==
    IF record_num = <<"2">> THEN <<"c", ",", " ", "d">> ELSE <<"t">> \o record_num

\* the records that references link to: the records above and one that is
\* no seed
Cited == Records \cup { <<"3">> }

SeedLists == UNION { [1..n -> Records] : n \in 1..MaxSeeds }

\* an entry of metadata.references: with a record link, or without one
RefEntry(e) ==
    IF e = <<"none">> THEN JObj(<< <<<<"reference">>, JObj(<<>>)>> >>)
    ELSE JObj(<< <<<<"record">>,
                   JObj(<< <<<<"$ref">>, JStr(literature_url(e))>> >>)>> >>)

\* the reference lists a seedable record may have: none, an entry without a
\* record link before a record, a record twice, two different records, or a
\* record before the record that is no seed
RefLists ==
    {<<>>} \cup { <<<<"none">>, e>> : e \in Records }
           \cup (Records \X Records) \cup (Records \X (Cited \ Records))

\* the response for a record: its title and its references (the key
\* "references" is missing when there are none)
RecordPayload(record_num, refs) ==
    JObj(<< <<<<"metadata">>,
              JObj(<< <<<<"titles">>, JList(<<Title(TitleOf(record_num))>>)>> >>
                   \o IF Len(refs) = 0 THEN <<>>
                      ELSE << <<<<"references">>,
                                JList([i \in 1..Len(refs) |-> RefEntry(refs[i])])>> >>)
            >> >>)

\* what the server may answer to the GET of a record (the record that is no
\* seed has no references)
RecordReplies(record_num) ==
    Replies({ RecordPayload(record_num, refs) :
                 refs \in IF record_num \in Records THEN RefLists ELSE {<<>>} })

\* what the server may answer to the title query of a record: the title, or
\* no hit at all
TitleReplies(record_num) ==
    Replies({ Hits(<<MetadataTitles(<<Title(TitleOf(record_num))>>)>>), Hits(<<>>) })

\* no get_inspire_nodes_from_url is running
NoUrlCall ==
    [url |-> <<>>, record_filter |-> <<>>, filtered |-> FALSE, caller |-> "none",
     seed_node |-> NoneV, references |-> <<>>, k |-> 0, found |-> <<>>]

GraphInit ==
    /\ now = 0
    /\ queue = <<>>
    /\ recent = <<>>
    /\ gets = <<>>
    /\ cache = <<>>
    /\ title_cache = <<>>
    /\ pc = "seeds"
    /\ call = NoUrlCall
    /\ ret = Pending
    /\ stored = <<>>
    /\ calls = 0
    /\ seeds \in SeedLists
    /\ nodes = <<>>
    /\ idx = 1

\* the state after a make_api_request that returned r
Requested(r, url, payload) ==
    /\ now' = r.st.now
    /\ queue' = r.st.queue
    /\ recent' = r.st.recent
    /\ gets' = r.st.gets
    /\ cache' = r.st.cache
    /\ stored' = IF r.wrote
                 THEN [u \in DOMAIN stored \cup {url} |->
                          IF u = url THEN payload ELSE stored[u]]
                 ELSE stored
    /\ calls' = calls + 1

\* an exception nothing catches ends the program
Crash(exception) ==
    /\ pc' = "crashed"
    /\ ret' = [value |-> NoneV, raised |-> exception]
    /\ UNCHANGED <<call, nodes, idx>>

\* SeedNode with a seed whose fetch failed kept as a node without a title
SeedNodeKeepingFailed ==
    /\ pc = "seeds"
    /\ idx <= Len(seeds)
    /\ \E reply \in RecordReplies(seeds[idx]) :
          LET url == literature_url(seeds[idx])
              r == make_api_request(State, url, TRUE, reply.o, reply.payload)
              p == getpath(r.value, seed_title_path)
              title == IF p.raised = "none" THEN p.v.str ELSE NoTitle
          IN /\ Requested(r, url, reply.payload)
             /\ IF r.raised # "none" THEN Crash(r.raised)
                ELSE IF IsNone(r.value)
                THEN /\ idx' = idx + 1
                     /\ nodes' = Append(nodes, Node(url, NoTitle, "SEED"))
                     /\ UNCHANGED <<pc, call, ret>>
                ELSE IF p.raised \notin {"none", "KeyError"} THEN Crash(p.raised)
                ELSE /\ pc' = "url"
                     /\ call' = [NoUrlCall EXCEPT
                                   !.url = url, !.caller = "seed",
                                   !.seed_node = Node(url, title, "SEED")]
                     /\ UNCHANGED <<ret, nodes, idx>>
    /\ UNCHANGED <<title_cache, seeds>>

\* get_nodes_from_seeds, lines 203-208: seed_node_from_inspire(seed), then
\* the call of get_inspire_nodes_from_inspire up to get_inspire_nodes_from_url
SeedNode ==
    /\ pc = "seeds"
    /\ idx <= Len(seeds)
    /\ \E reply \in RecordReplies(seeds[idx]) :
          LET url == literature_url(seeds[idx])
              r == make_api_request(State, url, TRUE, reply.o, reply.payload)
              p == getpath(r.value, seed_title_path)
              title == IF p.raised = "none" THEN p.v.str ELSE NoTitle
          IN /\ Requested(r, url, reply.payload)
             /\ IF r.raised # "none" THEN Crash(r.raised)
                ELSE IF IsNone(r.value)
                THEN /\ idx' = idx + 1
                     /\ UNCHANGED <<pc, call, ret, nodes>>
                ELSE IF p.raised \notin {"none", "KeyError"} THEN Crash(p.raised)
                ELSE /\ pc' = "url"
                     /\ call' = [NoUrlCall EXCEPT
                                   !.url = url, !.caller = "seed",
                                   !.seed_node = Node(url, title, "SEED")]
                     /\ UNCHANGED <<ret, nodes, idx>>
    /\ UNCHANGED <<title_cache, seeds>>

\* get_inspire_nodes_from_url, lines 40-53: the fetch and the reference list
UrlFetch ==
    /\ pc = "url"
    /\ \E reply \in RecordReplies(record_num_of(call.url)) :
          LET r == make_api_request(State, call.url, TRUE, reply.o, reply.payload)
              p == getpath(r.value, <<Key("metadata"), Key("references")>>)
          IN /\ Requested(r, call.url, reply.payload)
             /\ IF r.raised # "none" THEN Crash(r.raised)
                ELSE IF IsNone(r.value) \/ p.raised = "KeyError"
                THEN /\ pc' = "ref"
                     /\ call' = [call EXCEPT !.references = <<>>, !.k = 1]
                     /\ UNCHANGED <<ret, nodes, idx>>
                ELSE IF p.raised # "none" THEN Crash(p.raised)
                ELSE /\ pc' = "ref"
                     /\ call' = [call EXCEPT !.references = p.v.list, !.k = 1]
                     /\ UNCHANGED <<ret, nodes, idx>>
    /\ UNCHANGED <<title_cache, seeds>>

\* get_inspire_nodes_from_url, lines 54-57 and 59-63: a reference that is
\* skipped (no record link, or a record outside the filter)
RefSkip ==
    /\ pc = "ref"
    /\ call.k <= Len(call.references)
    /\ LET ref == call.references[call.k]
           p == getpath(ref, <<Key("record"), Key("$ref")>>)
       IN /\ \/ ~has_key(ref, "record")
             \/ /\ p.raised = "none"
                /\ call.filtered
                /\ \A i \in 1..Len(call.record_filter) : call.record_filter[i] # p.v.str
          /\ call' = [call EXCEPT !.k = @ + 1]
    /\ UNCHANGED <<now, queue, recent, gets, cache, title_cache, pc, ret, stored,
                   calls, seeds, nodes, idx>>

\* get_inspire_nodes_from_url, lines 54-74: a reference that is kept, its
\* title looked up with find_title_from_inspire_record(record_num, cache=True)
RefNode ==
    /\ pc = "ref"
    /\ call.k <= Len(call.references)
    /\ LET ref == call.references[call.k]
           p == getpath(ref, <<Key("record"), Key("$ref")>>)
       IN /\ has_key(ref, "record")
          /\ IF p.raised # "none"
             THEN /\ Crash(p.raised)
                  /\ UNCHANGED <<now, queue, recent, gets, cache, title_cache,
                                 stored, calls>>
             ELSE /\ call.filtered =>
                        \E i \in 1..Len(call.record_filter) :
                            call.record_filter[i] = p.v.str
                  /\ \E reply \in TitleReplies(record_num_of(p.v.str)) :
                        LET record == p.v.str
                            record_num == record_num_of(record)
                            r == find_title_from_inspire_record(
                                    State, title_cache, record_num, TRUE,
                                    reply.o, reply.payload)
                            title == IF r.raised = "KeyError" THEN NoTitle
                                     ELSE r.value.str
                        IN /\ Requested([st |-> r.st, wrote |-> FALSE],
                                        title_url(record_num), reply.payload)
                           /\ title_cache' = r.tc
                           /\ IF r.raised \notin {"none", "KeyError"}
                              THEN Crash(r.raised)
                              ELSE /\ call' = [call EXCEPT
                                         !.k = @ + 1,
                                         !.found = Append(@,
                                             Node(record, title, "REFERENCE"))]
                                   /\ UNCHANGED <<pc, ret, nodes, idx>>
    /\ UNCHANGED seeds

\* SeedDone without line 210: the seed node is left out of all_nodes
SeedDoneReferencesOnly ==
    /\ pc = "ref"
    /\ call.k > Len(call.references)
    /\ call.caller = "seed"
    /\ nodes' = nodes
                      \o [i \in 1..Len(call.found) |->
                             add_parent(call.found[i], call.seed_node)]
    /\ idx' = idx + 1
    /\ pc' = "seeds"
    /\ call' = NoUrlCall
    /\ UNCHANGED <<now, queue, recent, gets, cache, title_cache, ret, stored, calls,
                   seeds>>

\* get_inspire_nodes_from_url returns to get_inspire_nodes_from_inspire:
\* lines 105-108, then get_nodes_from_seeds lines 210-211
SeedDone ==
    /\ pc = "ref"
    /\ call.k > Len(call.references)
    /\ call.caller = "seed"
    /\ nodes' = nodes \o <<call.seed_node>>
                      \o [i \in 1..Len(call.found) |->
                             add_parent(call.found[i], call.seed_node)]
    /\ idx' = idx + 1
    /\ pc' = "seeds"
    /\ call' = NoUrlCall
    /\ UNCHANGED <<now, queue, recent, gets, cache, title_cache, ret, stored, calls,
                   seeds>>

\* get_nodes_from_seeds, lines 213-215, and find_inter_node_citations line 240
Deduplicate ==
    /\ pc = "seeds"
    /\ idx > Len(seeds)
    /\ nodes' = remove_duplicates(nodes)
    /\ idx' = 1
    /\ pc' = "cite"
    /\ UNCHANGED <<now, queue, recent, gets, cache, title_cache, call, ret, stored,
                   calls, seeds>>

\* find_inter_node_citations, lines 242-252: a seed is passed over, for any
\* other node get_inspire_nodes_from_url is called with the record filter
CiteNode ==
    /\ pc = "cite"
    /\ idx <= Len(nodes)
    /\ IF nodes[idx].node_type = "SEED"
       THEN /\ idx' = idx + 1
            /\ UNCHANGED <<pc, call>>
       ELSE /\ pc' = "url"
            /\ call' = [NoUrlCall EXCEPT
                          !.url = nodes[idx].record, !.caller = "cite",
                          !.filtered = TRUE,
                          !.record_filter = [i \in 1..Len(nodes) |-> nodes[i].record]]
            /\ UNCHANGED idx
    /\ UNCHANGED <<now, queue, recent, gets, cache, title_cache, ret, stored, calls,
                   seeds, nodes>>

\* get_inspire_nodes_from_url returns to find_inter_node_citations:
\* lines 254-255
CiteDone ==
    /\ pc = "ref"
    /\ call.k > Len(call.references)
    /\ call.caller = "cite"
    /\ nodes' = add_citations(nodes, nodes[idx], call.found)
    /\ idx' = idx + 1
    /\ pc' = "cite"
    /\ call' = NoUrlCall
    /\ UNCHANGED <<now, queue, recent, gets, cache, title_cache, ret, stored, calls,
                   seeds>>

\* find_inter_node_citations returns, line 257
Finish ==
    /\ pc = "cite"
    /\ idx > Len(nodes)
    /\ pc' = "done"
    /\ UNCHANGED <<now, queue, recent, gets, cache, title_cache, call, ret, stored,
                   calls, seeds, nodes, idx>>

GraphNext ==
    \/ SeedNode
    \/ UrlFetch
    \/ RefSkip
    \/ RefNode
    \/ SeedDone
    \/ Deduplicate
    \/ CiteNode
    \/ CiteDone
    \/ Finish

SpecGraph == GraphInit /\ [][GraphNext]_vars

----------------------------------------------------------------------------
(* C10: through seed ingestion, reference expansion, deduplication and the *)
(* inter-node citation pass, the parents of every node hold at most one    *)
(* member per record id, whatever the titles of the members: adding a      *)
(* parent whose record id is already among the parents changes nothing.    *)
C10_OneParentPerRecord ==
    \A i \in 1..Len(nodes) :
        \A a \in nodes[i].parents, b \in nodes[i].parents :
            a.record = b.record => a = b

----------------------------------------------------------------------------
(* Specification SpecDedup: remove_duplicates applied to any short list of *)
(* nodes.                                                                  *)

MaxDedupNodes == 3

\* the nodes found as parents in the lists
DedupParents ==
    { [record |-> <<"8">>, title |-> <<"a">>, node_type |-> "SEED"],
      [record |-> <<"8">>, title |-> <<"a">>, node_type |-> "REFERENCE"],
      [record |-> <<"9">>, title |-> <<"b">>, node_type |-> "SEED"] }

\* the sets a Python set of these nodes can be
DedupParentSets ==
    { S \in SUBSET DedupParents :
         \A x \in S, y \in S : (node_hash(x) = node_hash(y) /\ node_eq(x, y)) => x = y }

\* the nodes of the lists
DedupNodes ==
    { [record |-> r, title |-> tt[1], node_type |-> tt[2], parents |-> ps] :
        r \in Records,
        tt \in { <<<<"a">>, "SEED">>, <<<<"b">>, "REFERENCE">> },
        ps \in DedupParentSets }

DedupInit ==
    /\ now = 0
    /\ queue = <<>>
    /\ recent = <<>>
    /\ gets = <<>>
    /\ cache = <<>>
    /\ title_cache = <<>>
    /\ pc = "all_nodes"
    /\ call = [all_nodes |-> <<>>]
    /\ ret = Pending
    /\ stored = <<>>
    /\ calls = 0
    /\ seeds = <<>>
    /\ \E n \in 0..MaxDedupNodes : nodes \in [1..n -> DedupNodes]
    /\ idx = 0

\* all_nodes = remove_duplicates(all_nodes)
RemoveDuplicates ==
    /\ pc = "all_nodes"
    /\ nodes' = remove_duplicates(nodes)
    /\ call' = [all_nodes |-> nodes]
    /\ pc' = "unique_nodes"
    /\ UNCHANGED <<now, queue, recent, gets, cache, title_cache, ret, stored, calls,
                   seeds, idx>>

DedupNext == RemoveDuplicates

SpecDedup == DedupInit /\ [][DedupNext]_vars

\* the position of the first node of list ns with record r
FirstOf(ns, r) == Min({j \in 1..Len(ns) : ns[j].record = r})

\* the members of the parents of all nodes of list ns with record r
ParentsOf(ns, r) == UNION { ns[j].parents : j \in {k \in 1..Len(ns) : ns[k].record = r} }

(* C11: remove_duplicates returns one node per record of its input, in the *)
(* order in which the records first appear; each is the first input node   *)
(* of its record, with that node's title and role, and its parents are the *)
(* union (as Python sets, whose members count as the same when hash and == *)
(* agree) of the parents of all input nodes of the record.                 *)
C11_OneNodePerRecordParentsMerged ==
    pc = "unique_nodes" =>
        /\ { nodes[i].record : i \in 1..Len(nodes) }
              = { call.all_nodes[j].record : j \in 1..Len(call.all_nodes) }
        /\ \A i \in 1..Len(nodes), j \in 1..Len(nodes) :
              i < j => FirstOf(call.all_nodes, nodes[i].record)
                          < FirstOf(call.all_nodes, nodes[j].record)
        /\ \A i \in 1..Len(nodes) :
              LET first == call.all_nodes[FirstOf(call.all_nodes, nodes[i].record)]
                  all == ParentsOf(call.all_nodes, nodes[i].record)
              IN /\ nodes[i].title = first.title
                 /\ nodes[i].node_type = first.node_type
                 /\ nodes[i].parents \subseteq all
                 /\ first.parents \subseteq nodes[i].parents
                 /\ \A m \in all : \E y \in nodes[i].parents :
                       node_hash(y) = node_hash(m) /\ node_eq(y, m)

C11_Witness ==
    /\ pc = "unique_nodes"
    /\ Len(nodes) = 1
    /\ \E i \in 1..Len(call.all_nodes), j \in 1..Len(call.all_nodes) :
          /\ i < j
          /\ call.all_nodes[i].title # call.all_nodes[j].title
          /\ call.all_nodes[i].parents # {}
          /\ call.all_nodes[j].parents # {}
          /\ call.all_nodes[i].parents \cap call.all_nodes[j].parents = {}
          /\ nodes[1].parents = call.all_nodes[i].parents \cup call.all_nodes[j].parents

----------------------------------------------------------------------------
\* the records of list ns
RecordsOf(ns) == { ns[i].record : i \in 1..Len(ns) }

\* the records the record-linked entries of metadata.references of response
\* data link to
LinkedRecords(data) ==
    LET p == getpath(data, <<Key("metadata"), Key("references")>>)
    IN IF p.raised # "none" THEN {}
       ELSE { getpath(p.v.list[k], <<Key("record"), Key("$ref")>>).v.str :
                 k \in { i \in 1..Len(p.v.list) : has_key(p.v.list[i], "record") } }

(* C12: when find_inter_node_citations has returned, every node that is    *)
(* not a seed and whose record was fetched is, for each record-linked      *)
(* reference of its response that is the record of a node of the list,     *)
(* among the parents of that node, seed or not.  During the pass no seed   *)
(* is the citing node, and a reference to a record outside the list gives  *)
(* no cited node.                                                          *)
C12_CitationsBetweenNodesRecorded ==
    /\ pc = "done" =>
          \A i \in 1..Len(nodes), j \in 1..Len(nodes) :
              (/\ nodes[i].node_type # "SEED"
               /\ nodes[i].record \in DOMAIN stored
               /\ nodes[j].record \in LinkedRecords(stored[nodes[i].record]))
                  => \E m \in nodes[j].parents : m.record = nodes[i].record
    /\ (pc \in {"url", "ref"} /\ call.caller = "cite") =>
          /\ nodes[idx].node_type # "SEED"
          /\ RecordsOf(call.found) \subseteq RecordsOf(nodes)

C12_Witness ==
    /\ pc = "done"
    /\ \E i \in 1..Len(nodes), j \in 1..Len(nodes) :
          /\ nodes[i].node_type = "REFERENCE"
          /\ nodes[j].node_type = "SEED"
          /\ nodes[i].record \in DOMAIN stored
          /\ nodes[j].record \in LinkedRecords(stored[nodes[i].record])
          /\ LinkedRecords(stored[nodes[i].record]) \ RecordsOf(nodes) # {}
          /\ Member(nodes[i]) \in nodes[j].parents

----------------------------------------------------------------------------
\* find_inter_node_citations is running
InCitationPass == pc = "cite" \/ (pc \in {"url", "ref"} /\ call.caller = "cite")

(* C13: no step of find_inter_node_citations adds or removes a node or     *)
(* changes the record, title or role of one, and none removes a member     *)
(* from the parents of a node.                                             *)
C13_CitationPassKeepsNodes ==
    [][InCitationPass =>
          /\ Len(nodes') = Len(nodes)
          /\ \A i \in 1..Len(nodes) :
                /\ nodes'[i].record = nodes[i].record
                /\ nodes'[i].title = nodes[i].title
                /\ nodes'[i].node_type = nodes[i].node_type
                /\ nodes[i].parents \subseteq nodes'[i].parents]_vars

C13_Witness ==
    /\ pc = "done"
    /\ \E i \in 1..Len(nodes) :
          \E a \in nodes[i].parents, b \in nodes[i].parents :
              /\ a.node_type = "SEED"
              /\ b.node_type = "REFERENCE"
              /\ a.record # b.record

----------------------------------------------------------------------------
(* C14: in get_nodes_from_seeds a seed whose fetch fails (a GET is made    *)
(* and nothing is stored) is passed over: the step makes that one GET,     *)
(* adds no node, expands no reference and goes on to the next seed; and    *)
(* when the loop has ended every seed whose record was fetched has a node. *)
C14_FailedSeedSkipped ==
    /\ [][(/\ pc = "seeds"
           /\ idx <= Len(seeds)
           /\ Len(gets') > Len(gets)
           /\ cache' = cache)
             => /\ gets' = Append(gets, literature_url(seeds[idx]))
                /\ nodes' = nodes
                /\ title_cache' = title_cache
                /\ call' = call
                /\ pc' = "seeds"
                /\ idx' = idx + 1]_vars
    /\ [](pc \in {"cite", "done"} =>
            \A i \in 1..Len(seeds) :
                literature_url(seeds[i]) \in DOMAIN stored
                    => literature_url(seeds[i]) \in RecordsOf(nodes))

C14_Witness ==
    /\ pc = "done"
    /\ Len(seeds) = 2
    /\ gets # <<>>
    /\ gets[1] = literature_url(seeds[1])
    /\ literature_url(seeds[1]) \notin DOMAIN stored
    /\ literature_url(seeds[1]) \notin RecordsOf(nodes)
    /\ \E i \in 1..Len(nodes) :
          nodes[i].record = literature_url(seeds[2]) /\ nodes[i].node_type = "SEED"

----------------------------------------------------------------------------
\* a step of get_inspire_nodes_from_url on a reference whose title query was
\* sent and failed: a GET was made, no title was written, nothing was raised
TitleFetchFailed ==
    /\ pc = "ref"
    /\ Len(gets') > Len(gets)
    /\ title_cache' = title_cache
    /\ pc' # "crashed"

(* C15: a fetch failure while a reference is expanded drops that reference *)
(* (no node is produced for it) and the loop goes on with the next         *)
(* reference.                                                              *)
C15_FailedReferenceDropped ==
    [][TitleFetchFailed =>
          /\ call'.found = call.found
          /\ call'.k = call.k + 1]_vars

----------------------------------------------------------------------------
\* get_nodes_from_seeds has just returned
SeedsReturned == pc = "cite" /\ idx = 1

\* the entries of metadata.references of response data
ReferencesOf(data) ==
    LET p == getpath(data, <<Key("metadata"), Key("references")>>)
    IN IF p.raised # "none" THEN <<>> ELSE p.v.list

(* C16: for one seed whose record was fetched and whose references do not  *)
(* link to the seed's own record, get_nodes_from_seeds returns the seed     *)
(* node, a SEED without parents, followed by one REFERENCE node for every   *)
(* record its references link to, each with the seed as its only parent;    *)
(* entries without a record link give no node.                              *)
C16_SingleSeedExpansion ==
    (/\ SeedsReturned
     /\ Len(seeds) = 1
     /\ literature_url(seeds[1]) \in DOMAIN stored
     /\ literature_url(seeds[1]) \notin LinkedRecords(stored[literature_url(seeds[1])]))
        => LET linked == LinkedRecords(stored[literature_url(seeds[1])])
           IN /\ Len(nodes) = 1 + Cardinality(linked)
              /\ nodes[1].record = literature_url(seeds[1])
              /\ nodes[1].node_type = "SEED"
              /\ nodes[1].parents = {}
              /\ { nodes[i].record : i \in 2..Len(nodes) } = linked
              /\ \A i \in 2..Len(nodes) :
                    /\ nodes[i].node_type = "REFERENCE"
                    /\ nodes[i].parents = {Member(nodes[1])}

C16_Witness ==
    /\ SeedsReturned
    /\ Len(seeds) = 1
    /\ literature_url(seeds[1]) \in DOMAIN stored
    /\ Len(ReferencesOf(stored[literature_url(seeds[1])])) = 2
    /\ \E k \in 1..2 : ~has_key(ReferencesOf(stored[literature_url(seeds[1])])[k], "record")
    /\ Len(nodes) = 2
    /\ nodes[2].node_type = "REFERENCE"
    /\ nodes[2].parents = {Member(nodes[1])}

----------------------------------------------------------------------------
(* C17: a find_title_from_inspire_record call with caching enabled that    *)
(* finds no line for its record and returns appends exactly the line       *)
(* "record_id,title" of the title it returns, 'No title' included; and no  *)
(* call rewrites or removes a line the title cache held.                   *)
C17_MissAppendsOneLine ==
    /\ calls > 0 =>
          /\ Len(call.title_cache) <= Len(title_cache)
          /\ SubSeq(title_cache, 1, Len(call.title_cache)) = call.title_cache
    /\ (calls > 0 /\ call.use_cache /\ call.line = 0 /\ ret.raised = "none") =>
          title_cache = call.title_cache \o title_line(call.record, ret.value.str)

----------------------------------------------------------------------------
(* Specification SpecWait: wait_until_request_possible entered with any    *)
(* queue on which can_make_request is false, the process running (weak     *)
(* fairness of the loop's steps) while the clock advances at will.         *)

MaxWaitQueue == 16

\* the queues of n timestamps, the first k of them h and the others v, that
\* can_make_request refuses at time t and that age out before the clock's
\* last value
WaitQueues(t) ==
    { [i \in 1..n |-> IF i <= k[1] THEN k[2] ELSE k[3]] :
        n \in max_requests..MaxWaitQueue,
        k \in { x \in (1..max_requests) \X (0..(MaxTime - time_window)) \X (0..t) :
                   x[2] <= x[3] /\ t - x[2] < time_window } }

WaitInit ==
    /\ now \in 0..(MaxTime - 1)
    /\ queue \in WaitQueues(now)
    /\ recent = queue
    /\ gets = <<>>
    /\ cache = <<>>
    /\ title_cache = <<>>
    /\ pc = "waiting"
    /\ call = [recent |-> Len(queue), waited |-> TRUE]
    /\ ret = Pending
    /\ stored = <<>>
    /\ calls = 1
    /\ seeds = <<>>
    /\ nodes = <<>>
    /\ idx = 0

WaitNext ==
    \/ Tick
    \/ LimiterSleep
    \/ LimiterWake

SpecWait == WaitInit /\ [][WaitNext]_vars /\ WF_vars(LimiterSleep \/ LimiterWake)

(* C18: wait_until_request_possible, entered while can_make_request is     *)
(* false, returns in the end, and can_make_request is true when it does.   *)
C18_WaitTerminates ==
    /\ (pc = "waiting") ~> (pc = "issue")
    /\ [][(pc = "waiting" /\ pc' = "issue") => can_make_request(queue', now')]_vars

C18_Witness ==
    /\ pc = "issue"
    /\ call.waited
    /\ Len(queue) >= max_requests
    /\ now - queue[1] >= time_window
    /\ can_make_request(queue, now)

----------------------------------------------------------------------------
(* C19: every enqueue leaves in the queue exactly the timestamps, the new  *)
(* one included, that are at most time_window old by the clock its pruning *)
(* read (one exactly time_window old stays), in the order in which they    *)
(* were issued, oldest first.                                              *)
C19_QueueWithinWindowAfterEnqueue ==
    [][(pc = "issue" /\ pc' = "idle") =>
          /\ queue' = SelectSeq(Append(queue, now),
                                LAMBDA x : now' - x <= time_window)
          /\ \A i \in 1..Len(queue') : now' - queue'[i] <= time_window
          /\ \A i \in 1..(Len(queue') - 1) : queue'[i] <= queue'[i + 1]]_vars

C19_Witness ==
    /\ pc = "idle"
    /\ Len(queue) >= 2
    /\ now - queue[1] = time_window
    /\ queue[Len(queue)] = now

----------------------------------------------------------------------------
\* lines 272-280: the keys of adjacency_matrix built from list ns
adjacency_keys(ns) ==
    RecordsOf(ns) \cup UNION { { m.record : m \in ns[i].parents } : i \in 1..Len(ns) }

(* C20: when get_nodes_from_seeds and find_inter_node_citations have       *)
(* returned, whichever fetches failed, every parent of a node has the      *)
(* record of a node of the list: the adjacency matrix has no vertex        *)
(* outside the list.                                                       *)
C20_NoDanglingEdges ==
    pc = "done" =>
        /\ \A i \in 1..Len(nodes) :
              \A m \in nodes[i].parents : m.record \in RecordsOf(nodes)
        /\ adjacency_keys(nodes) = RecordsOf(nodes)

C20_Witness ==
    /\ pc = "done"
    /\ Len(seeds) = 2
    /\ nodes # <<>>
    /\ nodes[1].record # literature_url(seeds[1])
    /\ \E i \in 1..Len(nodes) : nodes[i].title = NoTitle /\ nodes[i].parents # {}
    /\ \E i \in 1..Len(nodes) :
          \E m \in nodes[i].parents : m.node_type = "REFERENCE"

====
